---- MODULE Spec2Model ----
(***************************************************************************)
(* Model of src/main.rs: a terminal Game of Life.  One Game value (field,  *)
(* width, height, stop, cursor, detail_view), the main loop                *)
(* update -> poll -> handle_input, and the terminal whose size the program *)
(* queries with terminal::size().                                          *)
(***************************************************************************)
EXTENDS Integers, Sequences, FiniteSets, TLC

\* ---------------------------------------------------------------- bounds
\* Largest terminal the environment reports: columns, rows, and cells
\* (columns * rows).
MaxW == 3
MaxH == 3
MaxCells == 6
\* Largest grid (columns, rows, cells) the engine step is applied to on its
\* own, with every cell content.
GridW == 3
GridH == 3
GridCells == 9
\* Largest grid (columns, rows) a still life or an oscillator is placed on.
PatW == 6
PatH == 6

\* u16 arithmetic is modulo 2^16 (`as u16` casts in is_alive_at).
U16 == 65536

Sizes == { s \in (1..MaxW) \X (1..MaxH) : s[1] * s[2] <= MaxCells }
GridSizes == { s \in (1..GridW) \X (1..GridH) : s[1] * s[2] <= GridCells }
PatSizes == (2..PatW) \X (2..PatH)

\* ------------------------------------------------------------- constants
QUIT_KEY == "q"
STOP_KEY == "s"
TOGGLE_VIEW_KEY == "v"
TOGGLE_CELL_KEY == " "
UP_KEY_ALT == "k"
DOWN_KEY_ALT == "j"
LEFT_KEY_ALT == "h"
RIGHT_KEY_ALT == "l"

LIVING == "living"
DEAD == "dead"

\* const STATE (a reserved word of TLA+): STATE[state] for state in 0..3 is
\* STATE_GLYPH[state + 1].
\* (variant: the two half-block glyphs change places)
STATE_GLYPH_swapped == <<"empty", "lower", "upper", "full">>

STATE_GLYPH == <<"empty", "upper", "lower", "full">>

\* (variant: the offset (1, 1) is left out)
DIRECTIONS_seven ==
    { <<-1, -1>>, <<-1, 0>>, <<-1, 1>>, <<0, -1>>,
      <<0, 1>>, <<1, -1>>, <<1, 0>> }

DIRECTIONS ==
    { <<-1, -1>>, <<-1, 0>>, <<-1, 1>>, <<0, -1>>,
      <<0, 1>>, <<1, -1>>, <<1, 0>>, <<1, 1>> }

\* Events read by crossterm::event::read(): key codes (characters and the
\* four arrows), some other key, and a non-key event.
Events ==
    { QUIT_KEY, STOP_KEY, TOGGLE_VIEW_KEY, TOGGLE_CELL_KEY,
      "Up", UP_KEY_ALT, "Down", DOWN_KEY_ALT,
      "Left", LEFT_KEY_ALT, "Right", RIGHT_KEY_ALT,
      "x", "NonKey" }

\* ----------------------------------------------------------------- state
VARIABLES
    field,        \* Vec<Vec<bool>>: field[y+1][x+1]
    width,        \* u16
    height,       \* u16
    stop,         \* bool
    cursor,       \* (u16, u16) = <<column, row>>
    detail_view,  \* bool
    term,         \* <<columns, rows>> last returned by terminal::size()
    pc            \* "update" | "poll" | "quit" | "panic"

vars == <<field, width, height, stop, cursor, detail_view, term, pc>>

\* --------------------------------------------------------------- helpers
Min(a, b) == IF a <= b THEN a ELSE b
Max(a, b) == IF a >= b THEN a ELSE b

\* vec![vec![false; w]; h]
DeadField(w, h) == [y \in 1..h |-> [x \in 1..w |-> FALSE]]

\* Vec::get(i).and_then(|row| row.get(j)): is <<row, col>> an index of f
InField(f, row, col) ==
    /\ row >= 0 /\ row < Len(f)
    /\ col >= 0 /\ col < Len(f[row + 1])

\* ----------------------------------------------------------- is_alive_at
\* (variant: no wrap-around, cells beyond the edges read as dead)
is_alive_at_nowrap(f, w, h, x, y) ==
    IF InField(f, y, x) THEN f[y + 1][x + 1] ELSE FALSE

\* (variant: a field whose dimensions are not w x h reads as all dead)
is_alive_at_reset(f, w, h, x, y) ==
    LET nx == ((x + w) % U16) % w
        ny == ((y + h) % U16) % h
    IN  IF Len(f) = h /\ Len(f[1]) = w /\ InField(f, ny, nx)
        THEN f[ny + 1][nx + 1] ELSE FALSE

is_alive_at(f, w, h, x, y) ==
    LET nx == ((x + w) % U16) % w
        ny == ((y + h) % U16) % h
    IN  IF InField(f, ny, nx) THEN f[ny + 1][nx + 1] ELSE FALSE

\* ---------------------------------------------------- update: engine step
live_neighbors(f, w, h, x, y) ==
    Cardinality({ d \in DIRECTIONS : is_alive_at(f, w, h, x + d[1], y + d[2]) })

\* (variant: survival on 2 neighbours only)
rule_b3s2(alive, n) == IF alive THEN n = 2 ELSE n = 3

rule(alive, n) == IF alive THEN (n = 2 \/ n = 3) ELSE n = 3

\* (variant: the new field keeps the dimensions of the old one)
new_field_keepdims(f, w, h) ==
    [yy \in 1..Len(f) |-> [xx \in 1..Len(f[yy]) |->
        rule(is_alive_at(f, w, h, xx - 1, yy - 1),
             live_neighbors(f, w, h, xx - 1, yy - 1))]]

new_field(f, w, h) ==
    [yy \in 1..h |-> [xx \in 1..w |->
        rule(is_alive_at(f, w, h, xx - 1, yy - 1),
             live_neighbors(f, w, h, xx - 1, yy - 1))]]

\* ----------------------------------------------------------- print_field
\* The rows y of the terminal that print_field loops over.
PrintRows(h, dv, th) ==
    IF dv
    THEN { y \in 1..(Max((Min(th, h) - 1) % U16, 1) - 1) : y % 2 = 1 }
    ELSE 1..(Min(th, h) - 1)

PrintCols(w, tw) == 0..(Min(tw, w) - 1)

\* The indices <<row, col>> of self.field that print_field reads.
PrintReads(w, h, dv, tw, th) ==
    IF dv
    THEN { <<y + dy - 1, x>> :
             y \in PrintRows(h, dv, th), dy \in 0..1, x \in PrintCols(w, tw) }
    ELSE { <<y - 1, x>> : y \in PrintRows(h, dv, th), x \in PrintCols(w, tw) }

\* print_field returns normally iff no index is out of bounds.
print_field_ok(f, w, h, dv, tw, th) ==
    \A rc \in PrintReads(w, h, dv, tw, th) : InField(f, rc[1], rc[2])

\* The terminal sizes under which print_field returns normally.
PrintOkSizes(f, w, h, dv) ==
    { tp \in Sizes : print_field_ok(f, w, h, dv, tp[1], tp[2]) }

\* `state` of the detail view for column x and loop row y: bit dy is set iff
\* field[y + dy - 1][x] is alive.
DetailState(f, x, y) ==
    (IF f[y][x + 1] THEN 1 ELSE 0) + (IF f[y + 1][x + 1] THEN 2 ELSE 0)

\* The cells print_field queues below the banner when the terminal size
\* is tw x th, each as the position moved to (column x, terminal row y),
\* the foreground colour set and the glyph printed. Defined where
\* print_field_ok holds.
print_field(f, w, h, cur, dv, tw, th) ==
    IF dv
    THEN { [x |-> x, y |-> (y + 1) \div 2, color |-> "Reset",
            glyph |-> STATE_GLYPH[DetailState(f, x, y) + 1]] :
             y \in PrintRows(h, dv, th), x \in PrintCols(w, tw) }
    ELSE { [x |-> x, y |-> y,
            color |-> IF cur = <<x, y - 1>> THEN "Cyan" ELSE "Reset",
            glyph |-> IF f[y][x + 1] THEN LIVING ELSE DEAD] :
             y \in PrintRows(h, dv, th), x \in PrintCols(w, tw) }

\* ---------------------------------------------------------------- update
\* (variant: no clamp)
ClampCursor_none(c, w, h) == c

ClampCursor(c, w, h) == <<Min(c[1], w - 1), Min(c[2], h - 1)>>

\* update with self.stop: print_field only.  tp is the terminal size that
\* print_field's terminal::size() returns.
\* (variant: the engine step is taken although paused)
UpdatePaused_steps(tp) ==
    /\ stop
    /\ field' = new_field(field, width, height)
    /\ term' = tp
    /\ pc' = IF print_field_ok(field', width, height, detail_view, tp[1], tp[2])
             THEN "poll" ELSE "panic"
    /\ UNCHANGED <<width, height, stop, cursor, detail_view>>

UpdatePaused(tp) ==
    /\ stop
    /\ term' = tp
    /\ pc' = IF print_field_ok(field, width, height, detail_view, tp[1], tp[2])
             THEN "poll" ELSE "panic"
    /\ UNCHANGED <<field, width, height, stop, cursor, detail_view>>

\* update with !self.stop, after the engine step has produced nf:
\* print_field sees a terminal of some size tp and either panics on an
\* index or returns; then the size query sees a terminal of size ts.
\* (variant: the size query result is not stored)
UpdateRunning_nostore(nf, ts) ==
    /\ ~stop
    /\ field' = nf
    /\ \/ /\ PrintOkSizes(nf, width, height, detail_view) # {}
          /\ term' = ts
          /\ pc' = "poll"
          /\ UNCHANGED <<width, height, cursor>>
       \/ /\ \E tp \in Sizes \ PrintOkSizes(nf, width, height, detail_view) :
               term' = tp
          /\ pc' = "panic"
          /\ UNCHANGED <<width, height, cursor>>
    /\ UNCHANGED <<stop, detail_view>>

UpdateRunning(nf, ts) ==
    /\ ~stop
    /\ field' = nf
    /\ \/ /\ PrintOkSizes(nf, width, height, detail_view) # {}
          /\ term' = ts
          /\ width' = ts[1]
          /\ height' = ts[2]
          /\ cursor' = ClampCursor(cursor, ts[1], ts[2])
          /\ pc' = "poll"
       \/ /\ \E tp \in Sizes \ PrintOkSizes(nf, width, height, detail_view) :
               term' = tp
          /\ pc' = "panic"
          /\ UNCHANGED <<width, height, cursor>>
    /\ UNCHANGED <<stop, detail_view>>

update ==
    /\ pc = "update"
    /\ IF stop
       THEN \E tp \in Sizes : UpdatePaused(tp)
       ELSE LET nf == new_field(field, width, height)
            IN  \E ts \in Sizes : UpdateRunning(nf, ts)

\* ----------------------------------------------------------- toggle_cell
toggle_cell(f, c) ==
    [f EXCEPT ![c[2] + 1][c[1] + 1] = ~f[c[2] + 1][c[1] + 1]]

\* ---------------------------------------------------------- handle_input
\* (variant: movement wraps around the edges)
MoveCursor_wrap(c, w, h, ev) ==
    CASE ev \in {"Up", UP_KEY_ALT} -> <<c[1], (c[2] + h - 1) % h>>
      [] ev \in {"Down", DOWN_KEY_ALT} -> <<c[1], (c[2] + 1) % h>>
      [] ev \in {"Left", LEFT_KEY_ALT} -> <<(c[1] + w - 1) % w, c[2]>>
      [] ev \in {"Right", RIGHT_KEY_ALT} -> <<(c[1] + 1) % w, c[2]>>
      [] OTHER -> c

MoveCursor(c, w, h, ev) ==
    CASE ev \in {"Up", UP_KEY_ALT} ->
           IF 0 < c[2] THEN <<c[1], c[2] - 1>> ELSE c
      [] ev \in {"Down", DOWN_KEY_ALT} ->
           IF c[2] < h - 1 THEN <<c[1], c[2] + 1>> ELSE c
      [] ev \in {"Left", LEFT_KEY_ALT} ->
           IF 0 < c[1] THEN <<c[1] - 1, c[2]>> ELSE c
      [] ev \in {"Right", RIGHT_KEY_ALT} ->
           IF c[1] < w - 1 THEN <<c[1] + 1, c[2]>> ELSE c
      [] OTHER -> c

KeyQuit ==
    /\ pc' = "quit"
    /\ UNCHANGED <<field, width, height, stop, cursor, detail_view, term>>

KeyStop ==
    /\ stop' = ~stop
    /\ pc' = "update"
    /\ UNCHANGED <<field, width, height, cursor, detail_view, term>>

KeyToggleView ==
    /\ detail_view' = ~detail_view
    /\ pc' = "update"
    /\ UNCHANGED <<field, width, height, stop, cursor, term>>

KeyToggleCell ==
    /\ IF InField(field, cursor[2], cursor[1])
       THEN /\ field' = toggle_cell(field, cursor)
            /\ pc' = "update"
       ELSE /\ pc' = "panic"
            /\ UNCHANGED field
    /\ UNCHANGED <<width, height, stop, cursor, detail_view, term>>

KeyMove(ev) ==
    /\ cursor' = MoveCursor(cursor, width, height, ev)
    /\ pc' = "update"
    /\ UNCHANGED <<field, width, height, stop, detail_view, term>>

KeyIgnored ==
    /\ pc' = "update"
    /\ UNCHANGED <<field, width, height, stop, cursor, detail_view, term>>

Directional ==
    { "Up", UP_KEY_ALT, "Down", DOWN_KEY_ALT,
      "Left", LEFT_KEY_ALT, "Right", RIGHT_KEY_ALT }

handle_input(ev) ==
    /\ pc = "poll"
    /\ CASE ev = QUIT_KEY -> KeyQuit
         [] ev = STOP_KEY -> KeyStop
         [] ev = TOGGLE_VIEW_KEY -> KeyToggleView
         [] ev = TOGGLE_CELL_KEY -> KeyToggleCell
         [] ev \in Directional -> KeyMove(ev)
         [] OTHER -> KeyIgnored

\* ------------------------------------------------------------------ main
\* event::poll(200ms) returned false: no event, next iteration.
PollTimeout ==
    /\ pc = "poll"
    /\ pc' = "update"
    /\ UNCHANGED <<field, width, height, stop, cursor, detail_view, term>>

\* Game::try_new() on a terminal of any size
Init ==
    /\ term \in Sizes
    /\ width = term[1]
    /\ height = term[2]
    /\ field = DeadField(term[1], term[2])
    /\ stop = TRUE
    /\ cursor = <<0, 0>>
    /\ detail_view = FALSE
    /\ pc = "update"

Next ==
    \/ update
    \/ \E ev \in Events : handle_input(ev)
    \/ PollTimeout

Spec == Init /\ [][Next]_vars

\* The engine step alone: a running game on any grid of GridSizes with any
\* cell contents (every such board can be drawn with the cursor and the
\* toggle-cell key while paused), then one update.
EngineInit ==
    \E s \in GridSizes :
        /\ term = s
        /\ width = s[1]
        /\ height = s[2]
        /\ field \in [1..s[2] -> [1..s[1] -> BOOLEAN]]
        /\ stop = FALSE
        /\ cursor = <<0, 0>>
        /\ detail_view = FALSE
        /\ pc = "update"

EngineNext == update

EngineSpec == EngineInit /\ [][EngineNext]_vars

\* The grid of w columns and h rows whose live cells are exactly `cells`
\* (a set of <<column, row>>).
PatternField(w, h, cells) ==
    [r \in 1..h |-> [c \in 1..w |-> <<c - 1, r - 1>> \in cells]]

\* The 2x2 block whose top-left cell is p, on the torus of a w x h grid.
Block(w, h, p) ==
    { <<(p[1] + dx) % w, (p[2] + dy) % h>> : dx \in 0..1, dy \in 0..1 }

\* The horizontal and the vertical run of 3 cells centred on p, on the torus.
HRun(w, h, p) == { <<(p[1] + d) % w, p[2]>> : d \in {w - 1, 0, 1} }
VRun(w, h, p) == { <<p[1], (p[2] + d) % h>> : d \in {h - 1, 0, 1} }

\* A running game on a terminal that keeps its size: the board is a 2x2
\* block (any grid of PatSizes, any position) or, on grids of at least 5x5,
\* a horizontal run of three (any position); every size query returns the
\* stored size.
SteadyInit ==
    \E s \in PatSizes :
        /\ term = s
        /\ width = s[1]
        /\ height = s[2]
        /\ \E p \in (0..(s[1] - 1)) \X (0..(s[2] - 1)) :
              \/ field = PatternField(s[1], s[2], Block(s[1], s[2], p))
              \/ /\ s[1] >= 5 /\ s[2] >= 5
                 /\ field = PatternField(s[1], s[2], HRun(s[1], s[2], p))
        /\ stop = FALSE
        /\ cursor = <<0, 0>>
        /\ detail_view = FALSE
        /\ pc = "update"

SteadyUpdate ==
    /\ pc = "update"
    /\ ~stop
    /\ UpdateRunning(new_field(field, width, height), <<width, height>>)

SteadyNext ==
    \/ SteadyUpdate
    \/ PollTimeout

SteadySpec == SteadyInit /\ [][SteadyNext]_vars

\* ================================================================ claims
\* The field has the stored dimensions.
DimsMatch ==
    /\ Len(field) = height
    /\ \A r \in 1..Len(field) : Len(field[r]) = width

\* The number of live cells of f.
LiveCount(f) ==
    Cardinality({ rc \in UNION { { <<r, c>> : c \in 1..Len(f[r]) } : r \in 1..Len(f) } :
                    f[rc[1]][rc[2]] })

\* The cell of grid g at (x, y) on the torus of g's own dimensions.
TorusCell(g, x, y) == g[(y % Len(g)) + 1][(x % Len(g[1])) + 1]

Moore == ((-1..1) \X (-1..1)) \ { <<0, 0>> }

MooreCount(g, x, y) ==
    Cardinality({ d \in Moore : TorusCell(g, x + d[1], y + d[2]) })

\* The B3/S23 next generation of grid g on its own torus.
LifeTorus(g) ==
    [r \in 1..Len(g) |-> [c \in 1..Len(g[1]) |->
        LET n == MooreCount(g, c - 1, r - 1)
        IN  \/ g[r][c] /\ n \in {2, 3}
            \/ ~g[r][c] /\ n = 3]]

\* g cut or padded with dead cells to w columns and h rows.
Resized(g, w, h) ==
    [r \in 1..h |-> [c \in 1..w |->
        IF r <= Len(g) /\ c <= Len(g[r]) THEN g[r][c] ELSE FALSE]]

\* An update call that returned (did not panic).
UpdateReturned == pc = "update" /\ pc' = "poll"

\* C1: on every grid whose field has the stored dimensions, one unpaused
\* update replaces the field by the B3/S23 next generation on the torus of
\* that grid: live iff (live with 2 or 3 live Moore neighbours) or (dead with
\* exactly 3), neighbours wrapped modulo width and height, all counted in the
\* old field.
C1_StepIsLifeOnTorus ==
    [][(UpdateReturned /\ ~stop /\ DimsMatch) => field' = LifeTorus(field)]_vars

\* a 3x3 board all alive after a step (from a row of three: six births and
\* three survivals)
C1_Witness ==
    /\ pc = "poll"
    /\ ~stop
    /\ Len(field) = 3 /\ Len(field[1]) = 3
    /\ LiveCount(field) = 9

\* C2: in every state of the running program the field has exactly `height`
\* rows of exactly `width` cells for the stored width and height, and the
\* stored dimensions equal the terminal size most recently observed.
C2_DimsMatchObserved ==
    pc \in {"update", "poll"} => (DimsMatch /\ <<width, height>> = term)

\* C3: whenever update renders, in either view mode and for any terminal
\* size, every field[row][col] that print_field reads is inside the field it
\* reads (the field as it is when print_field is called).
C3_RenderInBounds ==
    pc = "update" =>
        \A tp \in Sizes :
            \A rc \in PrintReads(width, height, detail_view, tp[1], tp[2]) :
                InField(IF stop THEN field ELSE new_field(field, width, height),
                        rc[1], rc[2])

\* C4: whenever a key can be handled (so whenever the toggle-cell key is),
\* the cursor is a valid index into the field.
C4_CursorInField ==
    pc = "poll" => InField(field, cursor[2], cursor[1])

CursorInBounds ==
    /\ 0 <= cursor[1] /\ cursor[1] < width
    /\ 0 <= cursor[2] /\ cursor[2] < height

\* C5: the cursor always satisfies 0 <= column < width and 0 <= row < height
\* for the stored width and height, and every update that returns leaves it
\* at (min(column, width-1), min(row, height-1)) for the width and height
\* stored after that update.
C5_CursorInBounds ==
    /\ []CursorInBounds
    /\ [][UpdateReturned =>
            cursor' = <<Min(cursor[1], width' - 1), Min(cursor[2], height' - 1)>>]_vars

\* after an update stored a smaller size than the field still has, the
\* cursor sits on the last column and row of the new size
C5_Witness ==
    /\ pc = "poll"
    /\ Len(field) > height
    /\ Len(field[1]) > width
    /\ cursor = <<width - 1, height - 1>>

\* The coordinates is_alive_at is asked about.
ProbeX == (0 - (2 * MaxW + 1))..(2 * MaxW + 1)
ProbeY == (0 - (2 * MaxH + 1))..(2 * MaxH + 1)

\* C6: on a grid of width W and height H, for all integers x, y (below -W,
\* -H and beyond the grid included), is_alive_at(x, y) = is_alive_at(x + W, y)
\* = is_alive_at(x, y + H), and it is the cell at (x mod W, y mod H).
C6_Periodic ==
    (pc = "update" /\ DimsMatch) =>
        \A x \in ProbeX, y \in ProbeY :
            /\ is_alive_at(field, width, height, x, y)
                 = is_alive_at(field, width, height, x + width, y)
            /\ is_alive_at(field, width, height, x, y)
                 = is_alive_at(field, width, height, x, y + height)
            /\ is_alive_at(field, width, height, x, y) = TorusCell(field, x, y)

\* C7: while paused, no step other than handling the toggle-cell key changes
\* the field's contents or the dimensions: update calls only render, whatever
\* the terminal size.
C7_PausedFieldUnchanged ==
    [][(stop /\ ~handle_input(TOGGLE_CELL_KEY)) =>
            UNCHANGED <<field, width, height>>]_vars

\* a paused update rendered a board with live cells on a terminal whose size
\* differs from the stored one
C7_Witness ==
    /\ pc = "poll"
    /\ stop
    /\ term # <<width, height>>
    /\ LiveCount(field) > 0

\* An unpaused update that returns and rebuilds the field for a width and
\* height other than the field's.
RebuildsForNewSize == UpdateReturned /\ ~stop /\ ~DimsMatch

Target(c, ev) ==
    CASE ev \in {"Up", UP_KEY_ALT} -> <<c[1], c[2] - 1>>
      [] ev \in {"Down", DOWN_KEY_ALT} -> <<c[1], c[2] + 1>>
      [] ev \in {"Left", LEFT_KEY_ALT} -> <<c[1] - 1, c[2]>>
      [] ev \in {"Right", RIGHT_KEY_ALT} -> <<c[1] + 1, c[2]>>

\* C10: a directional key moves the cursor to the adjacent cell along its
\* axis when that cell is inside [0, width-1] x [0, height-1], and leaves the
\* cursor unchanged otherwise; it never wraps.
C10_CursorNeverWraps ==
    [][\A ev \in Directional :
            handle_input(ev) =>
                cursor' = IF Target(cursor, ev) \in (0..(width - 1)) \X (0..(height - 1))
                          THEN Target(cursor, ev) ELSE cursor]_vars

\* the cursor has been moved to the far corner of a board of at least 2x2
C10_Witness ==
    /\ pc = "update"
    /\ stop
    /\ width > 1 /\ height > 1
    /\ DimsMatch
    /\ cursor = <<width - 1, height - 1>>

Cells(w, h) == (0..(w - 1)) \X (0..(h - 1))

\* The field is a 2x2 block and nothing else.
IsBlock ==
    \E p \in Cells(width, height) :
        field = PatternField(width, height, Block(width, height, p))

\* C11 as claimed: on every grid on which a 2x2 block can be placed (width
\* and height at least 2) and for every position of the block, one unpaused
\* update leaves the field equal to the input field.
C11_BlockIsStill ==
    [][(UpdateReturned /\ ~stop /\ IsBlock) => field' = field]_vars

\* C11 amended: the same on every grid of width and height at least 3.
C11_BlockIsStillFrom3 ==
    [][(UpdateReturned /\ ~stop /\ IsBlock /\ width >= 3 /\ height >= 3)
            => field' = field]_vars

\* a block that straddles both wrap-around edges of a grid of at least 3x3
\* has come through a step
C11_Witness ==
    /\ pc = "poll"
    /\ width >= 3 /\ height >= 3
    /\ field = PatternField(width, height,
                            Block(width, height, <<width - 1, height - 1>>))

\* C12: on an otherwise dead grid of width >= 5 and height >= 5, a horizontal
\* run of 3 live cells (any position, wrap-around included) becomes after one
\* step exactly the vertical run of 3 through the same centre, and that
\* vertical run becomes after one more step exactly the horizontal run again.
C12_BlinkerPeriod2 ==
    [][(UpdateReturned /\ ~stop /\ width >= 5 /\ height >= 5) =>
            \A p \in Cells(width, height) :
                /\ field = PatternField(width, height, HRun(width, height, p))
                     => field' = PatternField(width, height, VRun(width, height, p))
                /\ field = PatternField(width, height, VRun(width, height, p))
                     => field' = PatternField(width, height, HRun(width, height, p))]_vars

\* a vertical run through the corner cell (wrapping over the top edge) has
\* been produced by a step
C12_Witness ==
    /\ pc = "poll"
    /\ width >= 5 /\ height >= 5
    /\ field = PatternField(width, height, VRun(width, height, <<0, 0>>))

\* The field print_field is called on by the update about to run, and the
\* frames that update can queue (one per terminal size it may find).
RenderedField == IF stop THEN field ELSE new_field(field, width, height)

Frame(tp) ==
    print_field(RenderedField, width, height, cursor, detail_view, tp[1], tp[2])

FrameSizes == PrintOkSizes(RenderedField, width, height, detail_view)

\* The glyph the detail view is to show for a vertical pair of cells.
GlyphOf(top, bottom) ==
    CASE ~top /\ ~bottom -> "empty"
      [] top /\ ~bottom -> "upper"
      [] ~top /\ bottom -> "lower"
      [] top /\ bottom -> "full"

\* C13: in the detail view every glyph drawn stands for one vertical pair of
\* grid rows (2k, 2k+1) of its column, is drawn at terminal row k+1, and is
\* the glyph of index (top alive ? 1 : 0) + (bottom alive ? 2 : 0): space,
\* upper half block, lower half block, full block.
C13_DetailGlyphs ==
    (pc = "update" /\ detail_view) =>
        \A tp \in FrameSizes :
            \A d \in Frame(tp) :
                LET k == d.y - 1
                IN  /\ k >= 0
                    /\ d.x \in 0..(width - 1)
                    /\ d.glyph = GlyphOf(RenderedField[2 * k + 1][d.x + 1],
                                         RenderedField[2 * k + 2][d.x + 1])

\* a paused detail-view frame of a 2x3 board is about to be drawn whose first
\* pair holds (alive, dead) in column 0 and (dead, alive) in column 1
C13_Witness ==
    /\ pc = "update" /\ detail_view /\ stop
    /\ width = 2 /\ height = 3 /\ DimsMatch
    /\ field[1] = <<TRUE, FALSE>> /\ field[2] = <<FALSE, TRUE>>
    /\ \E tp \in FrameSizes :
          { d.glyph : d \in Frame(tp) } = {"upper", "lower"}

Running == pc \in {"update", "poll"}

\* C14: the loop ends exactly when the quit key is handled: handling 'q'
\* ends it and changes nothing else, every other key or non-key event is
\* followed by the next iteration, and nothing but the quit key takes the
\* program out of the loop.
C14_OnlyQuitEnds ==
    [][/\ handle_input(QUIT_KEY) =>
              (pc' = "quit" /\ UNCHANGED <<field, width, height, stop, cursor,
                                           detail_view, term>>)
       /\ \A ev \in Events \ {QUIT_KEY} : handle_input(ev) => pc' = "update"
       /\ (Running /\ ~Running') => handle_input(QUIT_KEY)]_vars

\* The field f with exactly the cell in column c[1], row c[2] negated.
Flipped(f, c) ==
    [r \in 1..Len(f) |->
        [x \in 1..Len(f[r]) |-> IF <<x - 1, r - 1>> = c THEN ~f[r][x] ELSE f[r][x]]]

\* C15: a key changes only what it names: the pause key flips stop, the view
\* key flips detail_view, the toggle-cell key flips exactly the cell of the
\* field at the cursor, a directional key changes at most the cursor, and any
\* other key or non-key event changes nothing; all the rest of the state is
\* left as it was.
C15_KeyFrame ==
    [][/\ handle_input(STOP_KEY) =>
              (stop' = ~stop /\ UNCHANGED <<field, width, height, cursor, detail_view>>)
       /\ handle_input(TOGGLE_VIEW_KEY) =>
              (detail_view' = ~detail_view
               /\ UNCHANGED <<field, width, height, cursor, stop>>)
       /\ handle_input(TOGGLE_CELL_KEY) =>
              (/\ InField(field, cursor[2], cursor[1])
               /\ field' = Flipped(field, cursor)
               /\ field' # field
               /\ UNCHANGED <<width, height, cursor, stop, detail_view>>)
       /\ \A ev \in Directional :
              handle_input(ev) =>
                  UNCHANGED <<field, width, height, stop, detail_view>>
       /\ \A ev \in {"x", "NonKey"} :
              handle_input(ev) =>
                  UNCHANGED <<field, width, height, stop, cursor, detail_view>>]_vars

C17_DetailPairsDrawn ==
    (pc = "update" /\ detail_view) =>
        \A tp \in FrameSizes :
            LET n == Min(tp[1], width)
                m == Min(tp[2], height)
            IN  { <<d.x, d.y - 1>> : d \in Frame(tp) }
                  = { xk \in (0..(n - 1)) \X (0..m) : 2 * xk[2] + 1 < m }

\* C18: in the coarse view, with the terminal as large as the grid (and of
\* at least two rows, so that there is a row below the banner), the frame
\* highlights exactly one cell: the cell under the cursor, drawn at the
\* cursor's column and one terminal row below the cursor's row (the banner
\* takes row 0) with its alive or dead glyph; every other cell drawn keeps
\* the default colour.
C18_CursorHighlighted ==
    (pc = "update" /\ ~detail_view /\ height >= 2 /\ DimsMatch
        /\ <<width, height>> \in FrameSizes) =>
        { d \in Frame(<<width, height>>) : d.color = "Cyan" }
          = { [x |-> cursor[1], y |-> cursor[2] + 1, color |-> "Cyan",
               glyph |-> IF TorusCell(RenderedField, cursor[1], cursor[2])
                         THEN LIVING ELSE DEAD] }

\* f has exactly h rows of exactly w cells.
HasDims(f, w, h) == Len(f) = h /\ \A r \in 1..Len(f) : Len(f[r]) = w

EngineStep == pc = "update" /\ ~stop

\* C19: the field starts with the startup size; an unpaused update gives it
\* the width and height that are stored when that update starts (so a new
\* terminal size reaches the field one iteration after it was stored); no
\* other step (paused update, key, non-key event, poll timeout) changes the
\* field's dimensions.
C19_FieldDimsLag ==
    /\ DimsMatch
    /\ [][/\ EngineStep => HasDims(field', width, height)
          /\ ~EngineStep =>
                /\ Len(field') = Len(field)
                /\ \A r \in 1..Len(field) : Len(field'[r]) = Len(field[r])]_vars

\* a paused update has returned and left the field with fewer rows than the
\* stored height, which an earlier running update had stored
C19_Witness ==
    pc = "poll" /\ stop /\ Len(field) < height

\* C20: a running update never fails, also when the field's dimensions differ
\* from the stored ones, and every is_alive_at(x, y) the step can call
\* (x in [-1, width], y in [-1, height]) returns the field's cell at
\* (x mod width, y mod height) when the field has that cell and dead when it
\* has not.
C20_StepTotal ==
    /\ [](EngineStep =>
            \A x \in -1..width, y \in -1..height :
                LET wx == x % width
                    wy == y % height
                IN  is_alive_at(field, width, height, x, y)
                      = (/\ wy < Len(field)
                         /\ wx < Len(field[wy + 1])
                         /\ field[wy + 1][wx + 1]))
    /\ [][EngineStep => (pc' = "poll" /\ HasDims(field', width, height))]_vars

\* a step is about to run on a field with live cells that has fewer rows
\* than the stored height, so that some wrapped rows lie outside the field
C20_Witness ==
    EngineStep /\ Len(field) < height /\ LiveCount(field) > 0

====
